---- MODULE Spec2Model ----
(***************************************************************************)
(* A model of Arm4DOF.py: the planar 4-segment arm Arm3Link, its forward   *)
(* kinematics get_xy, its inverse kinematics inv_kin (a call of            *)
(* scipy.optimize.fmin_slsqp with an objective and two equality            *)
(* constraints) and the convenience function findJointPos.                 *)
(*                                                                         *)
(* The optimizer is scipy's, not this program's.  It is modelled by what   *)
(* the call site fixes: the point it starts from, the callbacks it         *)
(* evaluates, its iteration cap, and that its result is a function of what *)
(* it is given.  Which point it returns is left open.                      *)
(*                                                                         *)
(* Numbers.  Angles are integers in units of pi/4, so pi is 4 and 2*pi is  *)
(* 8.  The sine and cosine of such an angle lie in {0, 1, -1, s, -s} with  *)
(* s = sqrt(2)/2, so every coordinate the program computes from integer    *)
(* segment lengths is a + b*s with integers a and b.  Such a number is the *)
(* pair <<a, b>>; 1 and s are linearly independent over the rationals, so  *)
(* two pairs are equal exactly when the reals are.  The arithmetic is that *)
(* of the reals, not of IEEE doubles: rounding is not modelled.            *)
(***************************************************************************)
EXTENDS Integers, Sequences, FiniteSets, TLC

VARIABLES heap, arms, log, last, call, stores

vars == <<heap, arms, log, last, call, stores>>

----------------------------------------------------------------------------
(* Bounds of the model *)

\* angles of the kinematics specification range over -MaxAngle..MaxAngle
MaxAngle == 3
\* arms constructed in one behaviour
MaxArms == 2
\* in-place stores by the caller in one behaviour
MaxMut == 1
\* completed inv_kin calls remembered in one behaviour
MaxSolves == 2
\* iterations one optimizer run may take (scipy's default cap is 100)
IterCap == 2

----------------------------------------------------------------------------
(* Exact numbers a + b*sqrt(2)/2 *)

Num(a, b) == <<a, b>>
Zero == Num(0, 0)
Add(u, v) == <<u[1] + v[1], u[2] + v[2]>>
Sub(u, v) == <<u[1] - v[1], u[2] - v[2]>>
Scale(n, u) == <<n * u[1], n * u[2]>>
\* 2*u*u, which is again of the form a + b*s: (a+bs)^2 = a^2 + b^2/2 + 2ab*s
TwiceSquare(u) == <<2 * u[1] * u[1] + u[2] * u[2], 4 * u[1] * u[2]>>
\* a + b*s >= 0, decided on integers (s^2 = 1/2)
NonNeg(u) ==
    LET a == u[1]
        b == u[2]
    IN  IF a >= 0 /\ b >= 0 THEN TRUE
        ELSE IF a < 0 /\ b < 0 THEN FALSE
        ELSE IF a >= 0 THEN 2 * a * a >= b * b
        ELSE b * b >= 2 * a * a
Geq(u, v) == NonNeg(Sub(u, v))

\* math.pi in units of pi/4
Pi == 4
TwoPi == 2 * Pi

\* np.cos on multiples of pi/4
Cos(k) ==
    LET r == k % TwoPi
    IN  IF r = 0 THEN Num(1, 0)
        ELSE IF r \in {1, 7} THEN Num(0, 1)
        ELSE IF r \in {2, 6} THEN Zero
        ELSE IF r \in {3, 5} THEN Num(0, -1)
        ELSE Num(-1, 0)
\* np.sin on multiples of pi/4: sin(x) = cos(x - pi/2)
Sin(k) == Cos(k - 2)

\* np.sum of a sequence
RECURSIVE SumSeq(_)
SumSeq(s) == IF s = <<>> THEN 0 ELSE Head(s) + SumSeq(Tail(s))

----------------------------------------------------------------------------
(* Python values *)

\* an optional argument: None, or a sequence
NoneArg == [given |-> FALSE, val |-> <<>>]
Given(v) == [given |-> TRUE, val |-> v]

\* what a call gives back: a point [x, y], a sequence of angles, or an
\* exception that leaves the call
NoPoint == <<Zero, Zero>>
RetNone == [kind |-> "none", xy |-> NoPoint, q |-> <<>>, flag |-> FALSE]
RetPoint(p) == [kind |-> "xy", xy |-> p, q |-> <<>>, flag |-> FALSE]
RetScalar(v) == [kind |-> "scalar", xy |-> <<v, Zero>>, q |-> <<>>, flag |-> FALSE]
RetAngles(q) == [kind |-> "angles", xy |-> NoPoint, q |-> q, flag |-> FALSE]
RetTuple(q) == [kind |-> "angles", xy |-> NoPoint, q |-> q, flag |-> TRUE]
RaiseIndexError == [kind |-> "IndexError", xy |-> NoPoint, q |-> <<>>, flag |-> FALSE]
RaiseInvalid == [kind |-> "InvalidConfiguration", xy |-> NoPoint, q |-> <<>>, flag |-> FALSE]

----------------------------------------------------------------------------
(* Arm3Link.get_xy *)

\* get_xy with np.cos left out of the last link of x
get_xy_nocos(selfL, selfq, qarg) ==
    LET q == IF qarg.given THEN qarg.val ELSE selfq
    IN  IF Len(selfL) < 4 \/ Len(q) < 3 THEN RaiseIndexError
        ELSE RetPoint(<<
            Add(Add(Scale(selfL[1], Cos(q[1])),
                    Scale(selfL[2], Cos(q[1] + q[2]))),
                Add(Scale(selfL[3], Cos(q[1] + q[2] + q[3])),
                    Scale(selfL[4], Num(SumSeq(q), 0)))),
            Add(Add(Scale(selfL[1], Sin(q[1])),
                    Scale(selfL[2], Sin(q[1] + q[2]))),
                Add(Scale(selfL[3], Sin(q[1] + q[2] + q[3])),
                    Scale(selfL[4], Sin(SumSeq(q))))) >>)

\* get_xy with the last link at its own joint angle, not the cumulative one
get_xy_own(selfL, selfq, qarg) ==
    LET q == IF qarg.given THEN qarg.val ELSE selfq
    IN  IF Len(selfL) < 4 \/ Len(q) < 4 THEN RaiseIndexError
        ELSE RetPoint(<<
            Add(Add(Scale(selfL[1], Cos(q[1])),
                    Scale(selfL[2], Cos(q[1] + q[2]))),
                Add(Scale(selfL[3], Cos(q[1] + q[2] + q[3])),
                    Scale(selfL[4], Cos(q[4])))),
            Add(Add(Scale(selfL[1], Sin(q[1])),
                    Scale(selfL[2], Sin(q[1] + q[2]))),
                Add(Scale(selfL[3], Sin(q[1] + q[2] + q[3])),
                    Scale(selfL[4], Sin(q[4])))) >>)

\* self.q is used when q is None; L[3] needs four lengths and q[2] three
\* angles (a shorter sequence raises IndexError); the last link's angle is
\* np.sum(q), the sum of every element of q
get_xy(selfL, selfq, qarg) ==
    LET q == IF qarg.given THEN qarg.val ELSE selfq
    IN  IF Len(selfL) < 4 \/ Len(q) < 3 THEN RaiseIndexError
        ELSE RetPoint(<<
            Add(Add(Scale(selfL[1], Cos(q[1])),
                    Scale(selfL[2], Cos(q[1] + q[2]))),
                Add(Scale(selfL[3], Cos(q[1] + q[2] + q[3])),
                    Scale(selfL[4], Cos(SumSeq(q))))),
            Add(Add(Scale(selfL[1], Sin(q[1])),
                    Scale(selfL[2], Sin(q[1] + q[2]))),
                Add(Scale(selfL[3], Sin(q[1] + q[2] + q[3])),
                    Scale(selfL[4], Sin(SumSeq(q))))) >>)

----------------------------------------------------------------------------
(* The callbacks inv_kin hands to the optimizer *)

Min2(a, b) == IF a < b THEN a ELSE b

\* weight = [1, 1, 1.3, 1], times ten
Weight10 == <<10, 10, 13, 10>>

RECURSIVE WeightedSquares(_, _, _)
WeightedSquares(q, q0, n) ==
    IF n = 0 THEN 0
    ELSE (q[n] - q0[n]) * (q[n] - q0[n]) * Weight10[n]
         + WeightedSquares(q, q0, n - 1)

\* distance_to_default: sqrt(sum((qi - q0i)**2 * wi)) over zip(q, self.q0,
\* weight), which stops at the shortest of the three.  The value returned
\* here is R = the sum with the weights times ten and the angles in units
\* of pi/4; the code's value is (pi/4)*sqrt(R/10), which is zero exactly
\* when R is and grows exactly when R does.
distance_to_default(selfq0, q) ==
    WeightedSquares(q, selfq0, Min2(Min2(Len(q), Len(selfq0)), Len(Weight10)))

\* x_constraint with the target's y subtracted
x_constraint_swapped(selfL, q, xy) ==
    IF Len(selfL) < 4 \/ Len(q) < 3 THEN RaiseIndexError
    ELSE RetScalar(
        Sub(Add(Add(Scale(selfL[1], Cos(q[1])),
                    Scale(selfL[2], Cos(q[1] + q[2]))),
                Add(Scale(selfL[3], Cos(q[1] + q[2] + q[3])),
                    Scale(selfL[4], Cos(SumSeq(q))))),
            xy[2]))

\* x_constraint: the x of the hand at q minus xy[0]
x_constraint(selfL, q, xy) ==
    IF Len(selfL) < 4 \/ Len(q) < 3 THEN RaiseIndexError
    ELSE RetScalar(
        Sub(Add(Add(Scale(selfL[1], Cos(q[1])),
                    Scale(selfL[2], Cos(q[1] + q[2]))),
                Add(Scale(selfL[3], Cos(q[1] + q[2] + q[3])),
                    Scale(selfL[4], Cos(SumSeq(q))))),
            xy[1]))

\* y_constraint: the y of the hand at q minus xy[1]
y_constraint(selfL, q, xy) ==
    IF Len(selfL) < 4 \/ Len(q) < 3 THEN RaiseIndexError
    ELSE RetScalar(
        Sub(Add(Add(Scale(selfL[1], Sin(q[1])),
                    Scale(selfL[2], Sin(q[1] + q[2]))),
                Add(Scale(selfL[3], Sin(q[1] + q[2] + q[3])),
                    Scale(selfL[4], Sin(SumSeq(q))))),
            xy[2]))

----------------------------------------------------------------------------
(* Objects: lists live in a heap and an arm holds references to them *)

\* the reference that stands for None
NoRef == 0

\* the lists the caller owns before any arm is built: a pose of four angles
\* that is not the rest pose, and a sequence of three elements
CallerLists == << <<0, 2, 0, 0>>, <<1, 1, 1>> >>
\* the (q, q0, L) arguments the caller constructs arms with
CtorArgs == { <<NoRef, NoRef, NoRef>>, <<1, NoRef, NoRef>>, <<2, NoRef, NoRef>>,
              <<NoRef, 2, NoRef>>, <<NoRef, NoRef, 2>> }
\* the targets the caller asks for: out of reach, the hand at the rest pose
\* (sqrt(2)/2, 3 + sqrt(2)/2), and straight down at full reach
FarTarget == <<Num(100, 0), Num(100, 0)>>
RestTarget == <<Num(0, 1), Num(3, 1)>>
DownTarget == <<Zero, Num(-4, 0)>>
Targets == {FarTarget, RestTarget, DownTarget}
\* the values the caller stores into a list, and where
StoreVals == {3}
\* the points, besides x0, at which the optimizer evaluates the callbacks:
\* one point, or one point for each of these angles
IterAngles == {-1, 2}
Iterates(n) == { [i \in 1..n |-> -1] }
GridIterates(n) == { [i \in 1..n |-> v] : v \in IterAngles }

PoseFields == {"q", "q0", "L"}

\* [pi/4, pi/4, 0, 0], np.array([pi/4, pi/4, 0, 0]), np.array([1, 1, 1, 1])
DefaultQ == <<1, 1, 0, 0>>
DefaultQ0 == <<1, 1, 0, 0>>
DefaultL == <<1, 1, 1, 1>>
\* [pi, pi, pi, pi] and [0, 0, -pi, -pi]
MaxAngles == <<Pi, Pi, Pi, Pi>>
MinAngles == <<0, 0, 0 - Pi, 0 - Pi>>

NoArm == [q |-> NoRef, q0 |-> NoRef, L |-> NoRef, max_angles |-> NoRef,
          min_angles |-> NoRef, args |-> <<NoRef, NoRef, NoRef>>]

\* the values an arm's fields refer to
Config(h, arm) ==
    [q |-> h[arm.q], q0 |-> h[arm.q0], L |-> h[arm.L],
     max_angles |-> h[arm.max_angles], min_angles |-> h[arm.min_angles]]

\* __init__ with q=[...] as a default argument: one list, made once, is the
\* q of every arm built without q
Arm3Link_init_shared(h, aq, aq0, aL) ==
    LET earlier == { a \in 1..Len(arms) : arms[a].args[1] = NoRef }
        share == aq = NoRef /\ earlier # {}
        h1 == IF aq = NoRef /\ ~share THEN Append(h, DefaultQ) ELSE h
        rq == IF share THEN arms[CHOOSE a \in earlier : TRUE].q
              ELSE IF aq = NoRef THEN Len(h1) ELSE aq
        h2 == IF aq0 = NoRef THEN Append(h1, DefaultQ0) ELSE h1
        rq0 == IF aq0 = NoRef THEN Len(h2) ELSE aq0
        h3 == IF aL = NoRef THEN Append(h2, DefaultL) ELSE h2
        rL == IF aL = NoRef THEN Len(h3) ELSE aL
        h4 == Append(h3, MaxAngles)
        h5 == Append(h4, MinAngles)
    IN  [heap |-> h5, raised |-> FALSE,
         arm |-> [q |-> rq, q0 |-> rq0, L |-> rL, max_angles |-> Len(h4),
                  min_angles |-> Len(h5), args |-> <<aq, aq0, aL>>]]

\* __init__ that refuses a sequence whose length is not 4
Arm3Link_init_checked(h, aq, aq0, aL) ==
    LET h1 == IF aq = NoRef THEN Append(h, DefaultQ) ELSE h
        rq == IF aq = NoRef THEN Len(h1) ELSE aq
        h2 == IF aq0 = NoRef THEN Append(h1, DefaultQ0) ELSE h1
        rq0 == IF aq0 = NoRef THEN Len(h2) ELSE aq0
        h3 == IF aL = NoRef THEN Append(h2, DefaultL) ELSE h2
        rL == IF aL = NoRef THEN Len(h3) ELSE aL
        h4 == Append(h3, MaxAngles)
        h5 == Append(h4, MinAngles)
        bad == Len(h5[rq]) # 4 \/ Len(h5[rq0]) # 4 \/ Len(h5[rL]) # 4
    IN  [heap |-> IF bad THEN h ELSE h5, raised |-> bad,
         arm |-> [q |-> rq, q0 |-> rq0, L |-> rL, max_angles |-> Len(h4),
                  min_angles |-> Len(h5), args |-> <<aq, aq0, aL>>]]

\* __init__: an argument that is None is replaced by a list made at this
\* call; the argument (or that list) is stored by reference, unread; the two
\* limit lists are made at this call.  No statement raises.
Arm3Link_init(h, aq, aq0, aL) ==
    LET h1 == IF aq = NoRef THEN Append(h, DefaultQ) ELSE h
        rq == IF aq = NoRef THEN Len(h1) ELSE aq
        h2 == IF aq0 = NoRef THEN Append(h1, DefaultQ0) ELSE h1
        rq0 == IF aq0 = NoRef THEN Len(h2) ELSE aq0
        h3 == IF aL = NoRef THEN Append(h2, DefaultL) ELSE h2
        rL == IF aL = NoRef THEN Len(h3) ELSE aL
        h4 == Append(h3, MaxAngles)
        h5 == Append(h4, MinAngles)
    IN  [heap |-> h5, raised |-> FALSE,
         arm |-> [q |-> rq, q0 |-> rq0, L |-> rL, max_angles |-> Len(h4),
                  min_angles |-> Len(h5), args |-> <<aq, aq0, aL>>]]

----------------------------------------------------------------------------
(* inv_kin *)

\* the call of fmin_slsqp with bounds=zip(min_angles, max_angles) added
SlsqpArgsBounded(cfg, xy) ==
    [x0 |-> cfg.q, q0 |-> cfg.q0, L |-> cfg.L, xy |-> xy,
     bounds |-> <<cfg.min_angles, cfg.max_angles>>]

\* what the call of fmin_slsqp is given: x0=self.q, the objective (which
\* reads self.q0), the two constraints (which read self.L) and args=(xy,);
\* no bounds and no inequality constraints
SlsqpArgs(cfg, xy) ==
    [x0 |-> cfg.q, q0 |-> cfg.q0, L |-> cfg.L, xy |-> xy,
     bounds |-> <<>>]

\* inv_kin that keeps the solution as the arm's pose: self.q[:] = result
inv_kin_heap_rolling(h, self, res) ==
    [h EXCEPT ![self.q] = res]

\* the heap when inv_kin returns: inv_kin has no assignment to self or to
\* an element of its lists
inv_kin_heap(h, self, res) == h

\* inv_kin with full_output=1: the solution with the optimizer's exit mode
inv_kin_ret_full(res) == RetTuple(res)

\* what inv_kin returns: the array fmin_slsqp returns, alone
inv_kin_ret(res) == RetAngles(res)

Idle == [active |-> FALSE, arm |-> 0, self |-> NoArm, base |-> 0,
         xy |-> NoPoint, it |-> 0, x |-> <<>>, f |-> 0,
         gx |-> Zero, gy |-> Zero]

\* the last call the caller made: which, on which arm (0: none, or the arm
\* local to findJointPos), with which optional argument, and its outcome
Last(op, a, arg, out) == [op |-> op, arm |-> a, arg |-> arg, out |-> out]

\* The optimizer starts: it evaluates the callbacks at x0 = self.q.  An
\* IndexError of a callback leaves fmin_slsqp and inv_kin.
Begin(op, a, self, h, base, xy) ==
    LET cfg == Config(h, self)
        gx == x_constraint(cfg.L, cfg.q, xy)
        gy == y_constraint(cfg.L, cfg.q, xy)
    IN  IF gx.kind = "IndexError" \/ gy.kind = "IndexError"
        THEN /\ last' = Last(op, a, NoneArg, RaiseIndexError)
             /\ heap' = SubSeq(h, 1, base)
             /\ call' = Idle
        ELSE /\ last' = Last(op, a, NoneArg, RetNone)
             /\ heap' = h
             /\ call' = [active |-> TRUE, arm |-> a, self |-> self,
                         base |-> base, xy |-> xy, it |-> 0, x |-> cfg.q,
                         f |-> distance_to_default(cfg.q0, cfg.q),
                         gx |-> gx.xy[1], gy |-> gy.xy[1]]

----------------------------------------------------------------------------
(* Actions *)

\* arm = Arm3Link(q, q0, L).  c.raised says whether __init__ raised: no
\* statement of it does, and then no arm is bound.
Construct(aq, aq0, aL) ==
    /\ ~call.active
    /\ Len(arms) < MaxArms
    /\ LET c == Arm3Link_init(heap, aq, aq0, aL)
       IN  IF c.raised
           THEN /\ last' = Last("Arm3Link", 0, NoneArg, RaiseInvalid)
                /\ UNCHANGED <<heap, arms>>
           ELSE /\ heap' = c.heap
                /\ arms' = Append(arms, c.arm)
                /\ last' = Last("Arm3Link", Len(arms) + 1, NoneArg, RetNone)
    /\ UNCHANGED <<log, call, stores>>

\* arm.f[i] = v, a store by the caller into a list of the arm
Store(a, f, i, v) ==
    /\ ~call.active
    /\ Len(stores) < MaxMut
    /\ a \in 1..Len(arms)
    /\ i \in 1..Len(heap[arms[a][f]])
    /\ heap' = [heap EXCEPT ![arms[a][f]][i] = v]
    /\ stores' = Append(stores, <<a, f>>)
    /\ last' = Last("store", a, NoneArg, RetNone)
    /\ UNCHANGED <<arms, log, call>>

\* arm.get_xy(q)
GetXY(a, qarg) ==
    /\ ~call.active
    /\ a \in 1..Len(arms)
    /\ LET cfg == Config(heap, arms[a])
       IN  last' = Last("get_xy", a, qarg, get_xy(cfg.L, cfg.q, qarg))
    /\ UNCHANGED <<heap, arms, log, call, stores>>

\* arm.inv_kin(xy) is called
InvKinCall(a, xy) ==
    /\ ~call.active
    /\ a \in 1..Len(arms)
    /\ Cardinality(log) < MaxSolves
    /\ Begin("inv_kin", a, arms[a], heap, Len(heap), xy)
    /\ UNCHANGED <<arms, log, stores>>

\* findJointPos(x, y) is called: arm = Arm3Link(), then arm.inv_kin([x, y]);
\* the arm is local to the call
FindJointPosCall(xy) ==
    /\ ~call.active
    /\ Cardinality(log) < MaxSolves
    /\ LET c == Arm3Link_init(heap, NoRef, NoRef, NoRef)
       IN  Begin("findJointPos", 0, c.arm, c.heap, Len(heap), xy)
    /\ UNCHANGED <<arms, log, stores>>

\* one more iteration of the optimizer, which evaluates the callbacks at a
\* new point; fmin_slsqp stops after its iteration cap
SlsqpIterOver(points) ==
    /\ call.active
    /\ call.it < IterCap
    /\ LET cfg == Config(heap, call.self)
       IN  \E x \in points :
               call' = [call EXCEPT !.it = @ + 1, !.x = x,
                          !.f = distance_to_default(cfg.q0, x),
                          !.gx = x_constraint(cfg.L, x, call.xy).xy[1],
                          !.gy = y_constraint(cfg.L, x, call.xy).xy[1]]
    /\ UNCHANGED <<heap, arms, log, last, stores>>

\* an iteration that moves to the one point of Iterates, or to a point of
\* GridIterates; the points have as many angles as x0
SlsqpIter == call.active /\ SlsqpIterOver(Iterates(Len(heap[call.self.q])))
SlsqpGridIter == call.active /\ SlsqpIterOver(GridIterates(Len(heap[call.self.q])))

\* fmin_slsqp returns its last point and inv_kin returns it.  The optimizer
\* is a function of what it is given: a call given what an earlier call was
\* given returns what that call returned.
InvKinReturn ==
    /\ call.active
    /\ LET cfg == Config(heap, call.self)
           key == SlsqpArgs(cfg, call.xy)
           prior == { e \in log : e.key = key }
           res == IF prior # {} THEN (CHOOSE e \in prior : TRUE).res ELSE call.x
       IN  /\ log' = log \cup {[arm |-> call.arm, ver |-> Len(stores),
                                 cfg |-> cfg, xy |-> call.xy, key |-> key,
                                 res |-> res, out |-> inv_kin_ret(res)]}
           /\ heap' = SubSeq(inv_kin_heap(heap, call.self, res), 1, call.base)
           /\ last' = Last(last.op, call.arm, NoneArg, inv_kin_ret(res))
    /\ call' = Idle
    /\ UNCHANGED <<arms, stores>>

----------------------------------------------------------------------------
(* Specifications *)

QArgs == {NoneArg} \cup { Given(CallerLists[r]) : r \in 1..Len(CallerLists) }

\* The caller's program before it builds an arm.
Init ==
    /\ heap = CallerLists
    /\ arms = <<>>
    /\ log = {}
    /\ last = Last("none", 0, NoneArg, RetNone)
    /\ call = Idle
    /\ stores = <<>>

\* Arms are built, read and written by the caller.
Next ==
    \/ \E c \in CtorArgs : Construct(c[1], c[2], c[3])
    \/ \E a \in 1..MaxArms, f \in PoseFields, v \in StoreVals :
           Store(a, f, 1, v)
    \/ \E a \in 1..MaxArms, qarg \in QArgs : GetXY(a, qarg)

Spec == Init /\ [][Next]_vars

\* The caller's program with two arms built: the first with the default
\* pose or with the caller's pose, the second Arm3Link().
SolveCtor == { <<NoRef, NoRef, NoRef>>, <<1, NoRef, NoRef>> }
SolveTargets == {FarTarget, DownTarget}
SolveFields == {"q", "max_angles"}

InitSolve ==
    /\ \E c1 \in SolveCtor :
          LET s1 == Arm3Link_init(CallerLists, c1[1], c1[2], c1[3])
              s2 == Arm3Link_init(s1.heap, NoRef, NoRef, NoRef)
          IN  /\ heap = s2.heap
              /\ arms = <<s1.arm, s2.arm>>
    /\ log = {}
    /\ last = Last("Arm3Link", 2, NoneArg, RetNone)
    /\ call = Idle
    /\ stores = <<>>

NextSolve ==
    \/ \E a \in 1..MaxArms, f \in SolveFields, v \in StoreVals :
           Store(a, f, 1, v)
    \/ GetXY(1, NoneArg)
    \/ \E a \in 1..MaxArms, xy \in SolveTargets : InvKinCall(a, xy)
    \/ \E xy \in SolveTargets : FindJointPosCall(xy)
    \/ SlsqpIter
    \/ InvKinReturn

SolveSpec == InitSolve /\ [][NextSolve]_vars

\* The interpreter runs a call it has entered: the optimizer's loop takes
\* its next step, an iteration or the return.
NextFair ==
    \/ \E a \in 1..MaxArms, xy \in SolveTargets : InvKinCall(a, xy)
    \/ \E xy \in SolveTargets : FindJointPosCall(xy)
    \/ SlsqpGridIter
    \/ InvKinReturn

FairSpec ==
    InitSolve /\ [][NextFair]_vars /\ WF_vars(SlsqpGridIter \/ InvKinReturn)

\* One arm built from a pose and segment lengths of the caller's, the pose
\* any four angles of the grid.
Angles == (0 - MaxAngle)..MaxAngle
KinLens == { <<1, 1, 1, 1>>, <<2, 1, 3, 1>>, <<1, 2, 1, 3>> }

InitKin ==
    /\ \E q \in [1..4 -> Angles], L \in KinLens :
          LET s1 == Arm3Link_init(<<q, L>>, 1, NoRef, 2)
          IN  /\ heap = s1.heap
              /\ arms = <<s1.arm>>
    /\ log = {}
    /\ last = Last("Arm3Link", 1, NoneArg, RetNone)
    /\ call = Idle
    /\ stores = <<>>

NextKin ==
    \/ \E qarg \in QArgs : GetXY(1, qarg)
    \/ \E xy \in Targets : InvKinCall(1, xy)

KinSpec == InitKin /\ [][NextKin]_vars

----------------------------------------------------------------------------
(* Forward kinematics: C1, C6, C9 (under KinSpec) *)

\* the angle of link i: the sum of the joint angles up to and including i
Cumulative(q, i) == SumSeq(SubSeq(q, 1, i))

\* the formula of the specification, for four angles and four lengths
FormulaX(L, q) ==
    Add(Add(Scale(L[1], Cos(Cumulative(q, 1))), Scale(L[2], Cos(Cumulative(q, 2)))),
        Add(Scale(L[3], Cos(Cumulative(q, 3))), Scale(L[4], Cos(Cumulative(q, 4)))))
FormulaY(L, q) ==
    Add(Add(Scale(L[1], Sin(Cumulative(q, 1))), Scale(L[2], Sin(Cumulative(q, 2)))),
        Add(Scale(L[3], Sin(Cumulative(q, 3))), Scale(L[4], Sin(Cumulative(q, 4)))))

\* the angles the last get_xy worked on: its argument, or self.q
LastPose ==
    IF last.arg.given THEN last.arg.val ELSE heap[arms[last.arm].q]
LastLengths == heap[arms[last.arm].L]

\* C1: for four joint angles q and four segment lengths L, get_xy(q)
\* returns [x, y] with x the sum over the links of L[i]*cos(q[0]+...+q[i])
\* and y the same sum with sin; when q is omitted, self.q is used.
C1_GetXYFormula ==
    (last.op = "get_xy" /\ Len(LastPose) = 4 /\ Len(LastLengths) = 4)
        => last.out = RetPoint(<<FormulaX(LastLengths, LastPose),
                                 FormulaY(LastLengths, LastPose)>>)

\* get_xy() was called with q omitted on an arm of unequal segments whose
\* last two joints are bent, and returned a point
C1_Witness ==
    /\ last.op = "get_xy"
    /\ ~last.arg.given
    /\ last.out.kind = "xy"
    /\ LastLengths = <<2, 1, 3, 1>>
    /\ LastPose = <<1, 3, -2, 3>>

\* C6: get_xy is periodic in each joint angle: adding 2*pi to one angle of
\* q leaves the point get_xy returns unchanged.
C6_Periodic ==
    (last.op = "get_xy" /\ last.out.kind = "xy")
        => \A i \in 1..Len(LastPose) :
               get_xy(LastLengths, heap[arms[last.arm].q],
                      Given([LastPose EXCEPT ![i] = @ + TwoPi])) = last.out

\* get_xy returned a point for a pose with every joint bent
C6_Witness ==
    /\ last.op = "get_xy"
    /\ last.out.kind = "xy"
    /\ LastPose = <<3, -1, 2, -3>>
    /\ LastLengths = <<1, 2, 1, 3>>

\* C9: at every point the optimizer evaluates them, x_constraint is the x of
\* get_xy minus the target's x and y_constraint the y of get_xy minus the
\* target's y, so both are zero exactly when get_xy is the target.
C9_ConstraintsAreGetXY ==
    call.active =>
        LET cfg == Config(heap, call.self)
            p == get_xy(cfg.L, cfg.q, Given(call.x))
        IN  /\ p.kind = "xy"
            /\ call.gx = Sub(p.xy[1], call.xy[1])
            /\ call.gy = Sub(p.xy[2], call.xy[2])
            /\ (call.gx = Zero /\ call.gy = Zero) <=> (p.xy = call.xy)

\* the callbacks were evaluated at a pose, not the rest pose, whose hand is
\* on the target: both constraints are zero
C9_Witness ==
    /\ call.active
    /\ call.x = <<-2, 0, 0, 0>>
    /\ call.xy = DownTarget
    /\ call.gx = Zero
    /\ call.gy = Zero

----------------------------------------------------------------------------
(* Construction: C4, C7 (under Spec) *)

\* C4 as stated: no arm exists one of whose q, q0 and L has a length other
\* than 4 (construction with such a sequence fails).
C4_OnlyLengthFour ==
    \A a \in 1..Len(arms) :
        /\ Len(heap[arms[a].q]) = 4
        /\ Len(heap[arms[a].q0]) = 4
        /\ Len(heap[arms[a].L]) = 4

\* C4 amended: Arm3Link(q, q0, L) never fails, whatever the lengths of the
\* sequences: it returns an arm whose q, q0 and L are the very sequences
\* given, elements and length untouched.
C4_ConstructionNeverFails ==
    /\ last.op = "Arm3Link" =>
           /\ last.out.kind = "none"
           /\ last.arm = Len(arms)
    /\ \A a \in 1..Len(arms) :
           LET given == arms[a].args
           IN  /\ given[1] # NoRef => arms[a].q = given[1]
               /\ given[2] # NoRef => arms[a].q0 = given[2]
               /\ given[3] # NoRef => arms[a].L = given[3]
    /\ \A r \in 1..Len(CallerLists) : Len(heap[r]) = Len(CallerLists[r])

\* an arm was just built whose L is the caller's sequence of three elements
C4_Witness ==
    /\ last.op = "Arm3Link"
    /\ last.out.kind = "none"
    /\ last.arm \in 1..Len(arms)
    /\ Len(heap[arms[last.arm].L]) = 3

\* the arms the caller has stored into
Written == { stores[k][1] : k \in 1..Len(stores) }
\* the (arm, field) pairs built from a default, not from an argument
Defaulted ==
    { <<a, "q">> : a \in { b \in 1..Len(arms) : arms[b].args[1] = NoRef } }
    \cup { <<a, "q0">> : a \in { b \in 1..Len(arms) : arms[b].args[2] = NoRef } }
    \cup { <<a, "L">> : a \in { b \in 1..Len(arms) : arms[b].args[3] = NoRef } }
DefaultOf(f) == IF f = "q" THEN DefaultQ ELSE IF f = "q0" THEN DefaultQ0 ELSE DefaultL

\* C7: default configuration values are fresh per construction: whatever
\* arms are built and whatever the caller stores into one arm's q, q0 or L,
\* every field another arm got by default still holds its default value,
\* and no list made for a default is the list of another field or arm.
C7_FreshDefaults ==
    /\ \A d \in Defaulted :
           d[1] \notin Written => heap[arms[d[1]][d[2]]] = DefaultOf(d[2])
    /\ \A d \in Defaulted : \A a \in 1..Len(arms) : \A f \in PoseFields :
           <<a, f>> # d => arms[a][f] # arms[d[1]][d[2]]
    /\ \A d \in Defaulted : arms[d[1]][d[2]] > Len(CallerLists)

\* two arms were built by Arm3Link(), the caller stored into the q of the
\* first, and the first no longer has the default pose
C7_Witness ==
    /\ Len(arms) = 2
    /\ arms[1].args = <<NoRef, NoRef, NoRef>>
    /\ arms[2].args = <<NoRef, NoRef, NoRef>>
    /\ stores = << <<1, "q">> >>
    /\ heap[arms[1].q] # DefaultQ
    /\ heap[arms[2].q] = DefaultQ

----------------------------------------------------------------------------
(* Solving: C8, C10 (under SolveSpec), C5 (under FairSpec) *)

\* the hand at angles q of an arm configured as cfg
Hand(cfg, q) == get_xy(cfg.L, cfg.q, Given(q)).xy

\* twice the square of the distance between two points
TwiceSquareDist(p, t) ==
    Add(TwiceSquare(Sub(p[1], t[1])), TwiceSquare(Sub(p[2], t[2])))

\* by how much a target (c, c), c > 0, is out of the reach of segments L:
\* its distance c*sqrt(2) from the origin minus the sum of the lengths
Gap(L, xy) == Sub(Num(0, 2 * xy[1][1]), Num(SumSeq(L), 0))
OnDiagonal(xy) == xy[1] = xy[2] /\ xy[1][2] = 0 /\ xy[1][1] > 0
Unreachable(L, xy) ==
    /\ OnDiagonal(xy)
    /\ \A i \in 1..Len(L) : L[i] > 0
    /\ Geq(Gap(L, xy), Num(1, 0))

\* C5, what is returned: an inv_kin for a target out of reach of an arm of
\* four segments raises nothing and returns four angles and no flag, and
\* the hand at those angles is as far from the target as the target is out
\* of reach: not near zero.
C5_Returned ==
    /\ last.op \in {"inv_kin", "findJointPos"} => last.out.kind # "IndexError"
    /\ \A e \in log :
           (Len(e.cfg.q) = 4 /\ Len(e.cfg.L) = 4 /\ Unreachable(e.cfg.L, e.xy))
               => /\ e.out = RetAngles(e.res)
                  /\ ~e.out.flag
                  /\ Len(e.out.q) = 4
                  /\ Geq(TwiceSquareDist(Hand(e.cfg, e.out.q), e.xy),
                         TwiceSquare(Gap(e.cfg.L, e.xy)))

\* C5: inv_kin for a target out of reach terminates, raises no error and
\* returns four angles without a success flag, whose hand is not near the
\* target.
C5_UnreachableTerminates ==
    /\ []C5_Returned
    /\ (call.active ~> ~call.active)

\* findJointPos(100, 100) has returned, after the optimizer moved off its
\* starting point
C5_Witness ==
    /\ ~call.active
    /\ last.op = "findJointPos"
    /\ last.out.kind = "angles"
    /\ \E e \in log :
           /\ e.arm = 0
           /\ e.xy = FarTarget
           /\ e.cfg.L = DefaultL
           /\ e.res # e.cfg.q
           /\ last.out.q = e.res

\* an angle outside the arm's limits
OutsideLimits(cfg, q) ==
    \E i \in 1..Len(q) : q[i] < cfg.min_angles[i] \/ q[i] > cfg.max_angles[i]

\* C8: joint limits are advisory: inv_kin gives the optimizer no bounds and
\* never reads min_angles or max_angles, so two solves that differ only in
\* the arm's limits return the same angles (which need not lie within the
\* limits).
C8_LimitsIgnored ==
    \A e1 \in log : \A e2 \in log :
        ( /\ e1.cfg.q = e2.cfg.q
          /\ e1.cfg.q0 = e2.cfg.q0
          /\ e1.cfg.L = e2.cfg.L
          /\ e1.xy = e2.xy )
            => /\ e1.res = e2.res
               /\ e1.key = e2.key

\* the same target was solved on two arms that differ only in max_angles,
\* and the angles returned lie outside the limits
C8_Witness ==
    \E e1 \in log : \E e2 \in log :
        /\ e1.key = e2.key
        /\ e1.cfg.max_angles # e2.cfg.max_angles
        /\ e1.cfg.min_angles = e2.cfg.min_angles
        /\ e1.res = e2.res
        /\ OutsideLimits(e1.cfg, e1.res)
        /\ OutsideLimits(e2.cfg, e2.res)

\* C10, the frame: no step of get_xy or of inv_kin changes an arm or a list.
C10_Frame ==
    (last'.op \in {"get_xy", "inv_kin"}) => (heap' = heap /\ arms' = arms)

\* C10, the solves: while the caller stores nothing, every solve on one arm
\* finds the arm as the solve before found it (it starts from the same
\* self.q) and returns the same angles for the same target.
C10_SameStart ==
    \A e1 \in log : \A e2 \in log :
        (e1.arm = e2.arm /\ e1.arm # 0 /\ e1.ver = e2.ver)
            => /\ e1.cfg = e2.cfg
               /\ e1.xy = e2.xy => e1.res = e2.res

\* C10: inv_kin and get_xy leave the arm unchanged (the pose is not updated
\* to the solution), so every solve on an arm starts from the same self.q
\* and its result depends on the target and the configuration only.
C10_ArmUnchanged ==
    /\ [][C10_Frame]_vars
    /\ []C10_SameStart

\* two targets were solved on arm 1, the first solve returned angles other
\* than the arm's pose, and the arm's pose is still the one it was built
\* with
C10_Witness ==
    /\ ~call.active
    /\ stores = <<>>
    /\ \E e1 \in log : \E e2 \in log :
           /\ e1.arm = 1 /\ e2.arm = 1
           /\ e1.xy # e2.xy
           /\ e1.res # e1.cfg.q
           /\ heap[arms[1].q] = e1.cfg.q
           /\ heap[arms[1].q] = CallerLists[1]

====
